---- MODULE Spec2Model ----
(***************************************************************************)
(* The egress-proxy rotation pool of web_assistant/core/network_manager.py *)
(* (class ProxyManager) as a state machine.  Every public method runs      *)
(* under self.lock, so each one is a single atomic action.  time.time() is *)
(* the variable now, advanced by the action Tick.                          *)
(***************************************************************************)
EXTENDS Integers, Sequences, FiniteSets, TLC

\* ------------------------------------------------------------------ bounds
\* the clock stops advancing at MaxTime (seconds)
MaxTime == 300
\* at most MaxWrites outcome reports and configure_proxy calls are made
MaxWrites == 1
\* the get_proxy calls recorded from construction on
MaxCalls == 4
\* in the scenarios of one strategy, at most MaxScenarioWrites outcome reports
\* and configure_proxy calls are made
MaxScenarioWrites == 3
\* the selections of the convergence scenario, each reported as a success
MaxSelections == 10000

\* ------------------------------------------------- constants of the program
\* report_failure: rest_until = time.time() + 300
REST_SECONDS == 300

\* the constructor's proxies_list argument (the 'http' keys, in list order)
PROXY_LISTS == {<<"B", "A">>, <<"A">>}
\* the list of the round-robin scenario
ABC_LIST == <<"A", "B", "C">>
\* an identifier that is never a key of self.proxies
UNKNOWN_URL == "X"
\* the truthy domain arguments of get_proxy, and the falsy one (None or "")
DOMAINS == {"a.com", "b.com"}
NO_DOMAIN == "None"
\* the seconds the clock can advance by between two operations
TICK_STEPS == {150}
\* the keyword arguments configure_proxy is called with: active_percentage in
\* per cent, domain_rules as dicts domain -> bool, rest_time in seconds
ACTIVE_PERCENTAGES == {70}
DOMAIN_RULES == {[d \in {"a.com"} |-> FALSE]}
REST_TIMES == {100}
\* the active_percentage values of the percentage scenarios, in per cent
SCENARIO_SHARES == ACTIVE_PERCENTAGES \cup {30}
\* the pools and the target shares of the convergence scenario
AB_LISTS == {<<"A", "B">>, <<"B", "A">>}
TARGET_SHARES == [u \in {"A", "B"} |-> IF u = "A" THEN 70 ELSE 30]
\* keyword values outside their documented range: a share above 100 per cent,
\* a share below 0, a negative rest_time
OUT_OF_RANGE_SHARES == {150, -10}
NEGATIVE_REST_TIMES == {-100}
\* a set_strategy argument that is not a member of RotationStrategy
OTHER_STRATEGIES == {"fastest"}
\* the domain_rules dicts of the custom-rules scenario
SCENARIO_RULES == DOMAIN_RULES \cup {[d \in {"a.com"} |-> TRUE]}

RotationStrategy ==
    {"random", "round_robin", "percentage_active", "rest_ready",
     "sticky_session", "custom_rules"}

\* what get_proxy yields when it raises Exception("No active proxies available")
RAISED == "raise"
\* the return value of the methods that return None
RETURNED_NONE == "none"
\* no url: the value of an observer that holds no url
ABSENT == "absent"
\* the threads that call into the pool, and the lock when no thread holds it
THREADS == {"t1", "t2", "t3"}
FREE == "free"
\* the empty dict
EmptyDict == [k \in {} |-> TRUE]

VARIABLES
    proxies_list,           \* key order of the dict self.proxies
    proxies,                \* self.proxies: url -> [state, stats]
    strategy,               \* self.strategy
    current_index,          \* self.current_index
    domain_sticky_proxies,  \* self.domain_sticky_proxies: a dict domain -> url
    now,                    \* time.time()
    last,                   \* the last step: method (or tick), argument, is_ban, outcome
    configs,                \* number of configure_proxy calls made
    ban_time,               \* url -> time of its last ban report, -1 once reconfigured
    pinned,                 \* domain -> url a sticky get_proxy returned, while eligible
    rr_window,              \* urls of the latest round-robin calls over an unchanged E
    pinned_hit,             \* TRUE when the last call was a sticky get_proxy of a pinned domain
    first_calls,            \* outcomes of the get_proxy calls since construction
    recording,              \* TRUE while nothing but round-robin get_proxy was called
    last_kwargs,            \* the keyword arguments of the last configure_proxy call
    stats_returned,         \* the dict the last get_stats call returned
    switched,               \* the strategy set just before the last get_proxy call
    lock,                   \* self.lock: the thread that holds it, or FREE
    threads,                \* per thread: position, call, arguments, loaded counter
    request                 \* the crawl agent's request: its meta and where it stands

pool == <<proxies_list, proxies, strategy, current_index, domain_sticky_proxies>>
observers ==
    <<configs, ban_time, pinned, pinned_hit, rr_window, first_calls, recording,
      last_kwargs, stats_returned, switched>>
call_observers == <<last_kwargs, stats_returned, switched>>
thread_state == <<lock, threads>>
vars == <<pool, now, last, observers, thread_state, request>>

\* ------------------------------------------------------------- ProxyStats
ProxyStats ==
    [success_count |-> 0, failure_count |-> 0, ban_count |-> 0,
     last_used |-> 0, rest_until |-> 0, active_percentage |-> 0,
     domain_rules |-> EmptyDict]

total_requests(stats) == stats.success_count + stats.failure_count

Range(s) == {s[i] : i \in 1..Len(s)}
URLS == UNION {Range(l) : l \in PROXY_LISTS \cup {ABC_LIST}}

\* ------------------------------------------------------------ __init__
Construct(list, strat) ==
    /\ proxies_list = list
    /\ proxies = [u \in Range(list) |-> [state |-> "active", stats |-> ProxyStats]]
    /\ strategy = strat
    /\ current_index = 0
    /\ domain_sticky_proxies = EmptyDict

\* ----------------------------------------------------------- eligibility
\* data['state'] == 'active' and time.time() >= data['stats'].rest_until
ActiveAt(data, t) ==
    /\ data.state = "active"
    /\ t >= data.stats.rest_until

IsActive(u) == ActiveAt(proxies[u], now)

\* the list comprehension over self.proxies.items(), in dict order
active_proxies == SelectSeq(proxies_list, IsActive)


\* ------------------------------------------------------- the six pickers
\* Each picker constrains the outcome ret (a url, or RAISED) and the fields of
\* the manager it writes.

\* a picker that takes the first active proxy instead of a random one
RandomPicksFirst(ret) ==
    IF active_proxies = <<>>
    THEN ret = RAISED
    ELSE ret = active_proxies[1]

\* random.choice(active_proxies), or raise
_get_random_proxy(ret) ==
    IF active_proxies = <<>>
    THEN ret = RAISED
    ELSE ret \in Range(active_proxies)

\* a round robin that indexes without advancing current_index
RoundRobinStuck(ret) ==
    IF active_proxies = <<>>
    THEN ret = RAISED /\ UNCHANGED current_index
    ELSE /\ current_index' = current_index % Len(active_proxies)
         /\ ret = active_proxies[current_index' + 1]

\* a round robin that wraps one entry early and never reaches the last one
RoundRobinSkipsLast(ret) ==
    IF active_proxies = <<>>
    THEN ret = RAISED /\ UNCHANGED current_index
    ELSE LET n == Len(active_proxies)
         IN  /\ current_index' = (current_index + 1) % (IF n > 1 THEN n - 1 ELSE 1)
             /\ ret = active_proxies[current_index' + 1]

\* a round robin that wraps over the size of the whole pool; an index past
\* the end of the eligible list raises IndexError
RoundRobinWrapsOverPool(ret) ==
    IF active_proxies = <<>>
    THEN ret = RAISED /\ UNCHANGED current_index
    ELSE /\ current_index' = (current_index + 1) % Len(proxies_list)
         /\ ret = IF current_index' < Len(active_proxies)
                  THEN active_proxies[current_index' + 1]
                  ELSE RAISED

\* current_index = (current_index + 1) % len(active_proxies), then index
_get_round_robin_proxy(ret) ==
    IF active_proxies = <<>>
    THEN ret = RAISED /\ UNCHANGED current_index
    ELSE /\ current_index' = (current_index + 1) % Len(active_proxies)
         /\ ret = active_proxies[current_index' + 1]

\* a key that leaves the target share out
ShareKeyIgnoresTarget(u, total) == total_requests(proxies[u].stats) * 100

\* (total_requests / total) - active_percentage, scaled by 100 * total
ShareKey(u, total) ==
    total_requests(proxies[u].stats) * 100
        - proxies[u].stats.active_percentage * total

RECURSIVE SumRequests(_)
SumRequests(list) ==
    IF list = <<>> THEN 0
    ELSE total_requests(proxies[Head(list)].stats) + SumRequests(Tail(list))

\* a percentage picker whose total counts the resting proxies too
PercentageCountsResting(ret) ==
    LET available == active_proxies
        total == SumRequests(proxies_list)
    IN  IF available = <<>>
        THEN ret = RAISED
        ELSE IF total = 0
        THEN _get_random_proxy(ret)
        ELSE \E i \in 1..Len(available) :
                /\ ret = available[i]
                /\ \A j \in 1..Len(available) :
                      ShareKey(available[i], total) <= ShareKey(available[j], total)
                /\ \A j \in 1..(i - 1) :
                      ShareKey(available[j], total) > ShareKey(available[i], total)

\* a percentage picker that takes the last minimal element in list order
PercentagePicksLastMinimal(ret) ==
    LET available == active_proxies
        total == SumRequests(available)
    IN  IF available = <<>>
        THEN ret = RAISED
        ELSE IF total = 0
        THEN _get_random_proxy(ret)
        ELSE \E i \in 1..Len(available) :
                /\ ret = available[i]
                /\ \A j \in 1..Len(available) :
                      ShareKey(available[i], total) <= ShareKey(available[j], total)
                /\ \A j \in (i + 1)..Len(available) :
                      ShareKey(available[j], total) > ShareKey(available[i], total)

\* a percentage picker without the total_requests == 0 branch: min() over
\* equal keys yields the first element
PercentageNeverDegrades(ret) ==
    LET available == active_proxies
        total == SumRequests(available)
    IN  IF available = <<>>
        THEN ret = RAISED
        ELSE \E i \in 1..Len(available) :
                /\ ret = available[i]
                /\ \A j \in 1..Len(available) :
                      ShareKey(available[i], total) <= ShareKey(available[j], total)
                /\ \A j \in 1..(i - 1) :
                      ShareKey(available[j], total) > ShareKey(available[i], total)

\* min(available_proxies, key=...): the first minimal element in list order
_get_percentage_based_proxy(ret) ==
    LET available == active_proxies
        total == SumRequests(available)
    IN  IF available = <<>>
        THEN ret = RAISED
        ELSE IF total = 0
        THEN _get_random_proxy(ret)
        ELSE \E i \in 1..Len(available) :
                /\ ret = available[i]
                /\ \A j \in 1..Len(available) :
                      ShareKey(available[i], total) <= ShareKey(available[j], total)
                /\ \A j \in 1..(i - 1) :
                      ShareKey(available[j], total) > ShareKey(available[i], total)

\* a rested picker that ranks by rest_until instead of last_used
RestedRanksByRestUntil(ret) ==
    LET rested == active_proxies
        since(u) == now - proxies[u].stats.rest_until
    IN  IF rested = <<>>
        THEN ret = RAISED
        ELSE \E i \in 1..Len(rested) :
                /\ ret = rested[i]
                /\ \A j \in 1..Len(rested) : since(rested[i]) >= since(rested[j])
                /\ \A j \in 1..(i - 1) : since(rested[j]) < since(rested[i])

\* max(rested_proxies, key=current_time - last_used): the first maximal element
_get_rested_proxy(ret) ==
    LET rested == active_proxies
        idle(u) == now - proxies[u].stats.last_used
    IN  IF rested = <<>>
        THEN ret = RAISED
        ELSE \E i \in 1..Len(rested) :
                /\ ret = rested[i]
                /\ \A j \in 1..Len(rested) : idle(rested[i]) >= idle(rested[j])
                /\ \A j \in 1..(i - 1) : idle(rested[j]) < idle(rested[i])

\* a sticky picker that never reads the mapping and assigns anew on every call
StickyReassigns(domain, ret) ==
    /\ _get_random_proxy(ret)
    /\ IF ret = RAISED
       THEN UNCHANGED domain_sticky_proxies
       ELSE domain_sticky_proxies' =
               [d \in DOMAIN domain_sticky_proxies \cup {domain} |->
                   IF d = domain THEN ret ELSE domain_sticky_proxies[d]]

\* the mapped proxy if its state is 'active', else a random one, mapped anew
_get_sticky_proxy(domain, ret) ==
    IF /\ domain \in DOMAIN domain_sticky_proxies
       /\ proxies[domain_sticky_proxies[domain]].state = "active"
    THEN /\ ret = domain_sticky_proxies[domain]
         /\ UNCHANGED domain_sticky_proxies
    ELSE /\ _get_random_proxy(ret)
         /\ IF ret = RAISED
            THEN UNCHANGED domain_sticky_proxies
            ELSE domain_sticky_proxies' =
                    [d \in DOMAIN domain_sticky_proxies \cup {domain} |->
                        IF d = domain THEN ret ELSE domain_sticky_proxies[d]]

\* domain_rules.get(domain, True)
Allows(u, domain) ==
    LET rules == proxies[u].stats.domain_rules
    IN  IF domain \in DOMAIN rules THEN rules[domain] ELSE TRUE

\* a custom-rule picker that raises when no active proxy matches the rules
CustomRuleNoFallback(domain, ret) ==
    LET Matches(u) == IsActive(u) /\ Allows(u, domain)
        matching_proxies == SelectSeq(proxies_list, Matches)
    IN  IF matching_proxies = <<>>
        THEN ret = RAISED
        ELSE ret \in Range(matching_proxies)

\* a custom-rule picker that never reads domain_rules
CustomRuleIgnoresRules(domain, ret) == _get_random_proxy(ret)

\* matching_proxies if any, else _get_random_proxy()
_get_custom_rule_proxy(domain, ret) ==
    LET Matches(u) == IsActive(u) /\ Allows(u, domain)
        matching_proxies == SelectSeq(proxies_list, Matches)
    IN  IF matching_proxies = <<>>
        THEN _get_random_proxy(ret)
        ELSE ret \in Range(matching_proxies)

\* --------------------------------------------------- the public operations
Call(op, arg, is_ban, ret) ==
    last' = [op |-> op, arg |-> arg, is_ban |-> is_ban, ret |-> ret]

\* a ladder that enters the sticky picker without testing the domain
DispatchWithoutDomainTest(domain, ret) ==
    IF strategy = "random"
    THEN _get_random_proxy(ret) /\ UNCHANGED <<current_index, domain_sticky_proxies>>
    ELSE IF strategy = "round_robin"
    THEN _get_round_robin_proxy(ret) /\ UNCHANGED domain_sticky_proxies
    ELSE IF strategy = "percentage_active"
    THEN _get_percentage_based_proxy(ret)
         /\ UNCHANGED <<current_index, domain_sticky_proxies>>
    ELSE IF strategy = "rest_ready"
    THEN _get_rested_proxy(ret) /\ UNCHANGED <<current_index, domain_sticky_proxies>>
    ELSE IF strategy = "sticky_session"
    THEN _get_sticky_proxy(domain, ret) /\ UNCHANGED current_index
    ELSE IF strategy = "custom_rules" /\ domain # NO_DOMAIN
    THEN _get_custom_rule_proxy(domain, ret)
         /\ UNCHANGED <<current_index, domain_sticky_proxies>>
    ELSE _get_random_proxy(ret) /\ UNCHANGED <<current_index, domain_sticky_proxies>>

\* get_proxy(domain): the if/elif ladder, with _get_random_proxy as fallback
Dispatch(domain, ret) ==
    IF strategy = "random"
    THEN _get_random_proxy(ret) /\ UNCHANGED <<current_index, domain_sticky_proxies>>
    ELSE IF strategy = "round_robin"
    THEN _get_round_robin_proxy(ret) /\ UNCHANGED domain_sticky_proxies
    ELSE IF strategy = "percentage_active"
    THEN _get_percentage_based_proxy(ret)
         /\ UNCHANGED <<current_index, domain_sticky_proxies>>
    ELSE IF strategy = "rest_ready"
    THEN _get_rested_proxy(ret) /\ UNCHANGED <<current_index, domain_sticky_proxies>>
    ELSE IF strategy = "sticky_session" /\ domain # NO_DOMAIN
    THEN _get_sticky_proxy(domain, ret) /\ UNCHANGED current_index
    ELSE IF strategy = "custom_rules" /\ domain # NO_DOMAIN
    THEN _get_custom_rule_proxy(domain, ret)
         /\ UNCHANGED <<current_index, domain_sticky_proxies>>
    ELSE _get_random_proxy(ret) /\ UNCHANGED <<current_index, domain_sticky_proxies>>

get_proxy(domain) ==
    \E ret \in URLS \cup {RAISED} :
        /\ Dispatch(domain, ret)
        /\ Call("get_proxy", domain, FALSE, ret)
        /\ UNCHANGED <<proxies_list, proxies, strategy, now>>

\* a set_strategy that leaves self.strategy as it was
SetStrategyIgnored(new_strategy) ==
    /\ Call("set_strategy", new_strategy, FALSE, RETURNED_NONE)
    /\ UNCHANGED <<pool, now>>

\* a set_strategy that starts the new strategy with an empty sticky map
SetStrategyClearsSticky(new_strategy) ==
    /\ strategy' = new_strategy
    /\ domain_sticky_proxies' = EmptyDict
    /\ Call("set_strategy", new_strategy, FALSE, RETURNED_NONE)
    /\ UNCHANGED <<proxies_list, proxies, current_index, now>>

\* self.strategy = strategy, whatever the argument
set_strategy(new_strategy) ==
    /\ strategy' = new_strategy
    /\ Call("set_strategy", new_strategy, FALSE, RETURNED_NONE)
    /\ UNCHANGED <<proxies_list, proxies, current_index, domain_sticky_proxies,
                   now>>

\* a configure_proxy that replaces the stats object by a fresh one
ConfigureResetsStats(proxy_url, kwargs) ==
    /\ IF proxy_url \in DOMAIN proxies
       THEN proxies' = [proxies EXCEPT ![proxy_url].stats =
                [ProxyStats EXCEPT !.active_percentage =
                    IF kwargs.active_percentage # {}
                    THEN CHOOSE v \in kwargs.active_percentage : TRUE
                    ELSE @]]
       ELSE UNCHANGED proxies
    /\ Call("configure_proxy", proxy_url, FALSE, RETURNED_NONE)
    /\ UNCHANGED <<proxies_list, strategy, current_index, domain_sticky_proxies, now>>

\* a configure_proxy that creates the entry of a url it does not know
ConfigureCreatesEntry(proxy_url, kwargs) ==
    /\ proxies' = [u \in DOMAIN proxies \cup {proxy_url} |->
                      IF u \in DOMAIN proxies THEN proxies[u]
                      ELSE [state |-> "active", stats |-> ProxyStats]]
    /\ Call("configure_proxy", proxy_url, FALSE, RETURNED_NONE)
    /\ UNCHANGED <<proxies_list, strategy, current_index, domain_sticky_proxies, now>>

\* kwargs: each keyword is a set, empty when the keyword is not passed
configure_proxy(proxy_url, kwargs) ==
    /\ IF proxy_url \in DOMAIN proxies
       THEN LET stats == proxies[proxy_url].stats
                s1 == IF kwargs.active_percentage # {}
                      THEN [stats EXCEPT !.active_percentage =
                                CHOOSE v \in kwargs.active_percentage : TRUE]
                      ELSE stats
                s2 == IF kwargs.domain_rules # {}
                      THEN LET new == CHOOSE v \in kwargs.domain_rules : TRUE
                               old == s1.domain_rules
                           IN  [s1 EXCEPT !.domain_rules =
                                   [d \in DOMAIN old \cup DOMAIN new |->
                                       IF d \in DOMAIN new THEN new[d] ELSE old[d]]]
                      ELSE s1
                s3 == IF kwargs.rest_time # {}
                      THEN [s2 EXCEPT !.rest_until =
                                now + (CHOOSE v \in kwargs.rest_time : TRUE)]
                      ELSE s2
            IN  proxies' = [proxies EXCEPT ![proxy_url].stats = s3]
       ELSE UNCHANGED proxies
    /\ Call("configure_proxy", proxy_url, FALSE, RETURNED_NONE)
    /\ UNCHANGED <<proxies_list, strategy, current_index, domain_sticky_proxies, now>>

\* a report_success without the membership test: the lookup raises KeyError
ReportSuccessUnguarded(proxy_url) ==
    /\ IF proxy_url \in DOMAIN proxies
       THEN /\ proxies' = [proxies EXCEPT
                    ![proxy_url].stats.success_count = @ + 1,
                    ![proxy_url].stats.last_used = now]
            /\ Call("report_success", proxy_url, FALSE, RETURNED_NONE)
       ELSE /\ UNCHANGED proxies
            /\ Call("report_success", proxy_url, FALSE, RAISED)
    /\ UNCHANGED <<proxies_list, strategy, current_index, domain_sticky_proxies,
                   now>>

\* a report_success that also ends the entry's rest window
ReportSuccessEndsRest(proxy_url) ==
    /\ IF proxy_url \in DOMAIN proxies
       THEN proxies' = [proxies EXCEPT
                ![proxy_url].stats.success_count = @ + 1,
                ![proxy_url].stats.rest_until = 0,
                ![proxy_url].stats.last_used = now]
       ELSE UNCHANGED proxies
    /\ Call("report_success", proxy_url, FALSE, RETURNED_NONE)
    /\ UNCHANGED <<proxies_list, strategy, current_index, domain_sticky_proxies,
                   now>>

report_success(proxy_url) ==
    /\ IF proxy_url \in DOMAIN proxies
       THEN proxies' = [proxies EXCEPT
                ![proxy_url].stats.success_count = @ + 1,
                ![proxy_url].stats.last_used = now]
       ELSE UNCHANGED proxies
    /\ Call("report_success", proxy_url, FALSE, RETURNED_NONE)
    /\ UNCHANGED <<proxies_list, strategy, current_index, domain_sticky_proxies,
                   now>>

\* a report_failure that starts the rest window on every failure
ReportFailureAlwaysRests(proxy_url, is_ban) ==
    /\ IF proxy_url \in DOMAIN proxies
       THEN proxies' = [proxies EXCEPT
                ![proxy_url].stats.failure_count = @ + 1,
                ![proxy_url].stats.ban_count = IF is_ban THEN @ + 1 ELSE @,
                ![proxy_url].stats.rest_until = now + REST_SECONDS,
                ![proxy_url].stats.last_used = now]
       ELSE UNCHANGED proxies
    /\ Call("report_failure", proxy_url, is_ban, RETURNED_NONE)
    /\ UNCHANGED <<proxies_list, strategy, current_index, domain_sticky_proxies,
                   now>>

\* a report_failure that sets the state of a banned entry to 'banned'
ReportFailureMarksBanned(proxy_url, is_ban) ==
    /\ IF proxy_url \in DOMAIN proxies
       THEN proxies' = [proxies EXCEPT
                ![proxy_url].state = IF is_ban THEN "banned" ELSE @,
                ![proxy_url].stats.failure_count = @ + 1,
                ![proxy_url].stats.ban_count = IF is_ban THEN @ + 1 ELSE @,
                ![proxy_url].stats.rest_until =
                    IF is_ban THEN now + REST_SECONDS ELSE @,
                ![proxy_url].stats.last_used = now]
       ELSE UNCHANGED proxies
    /\ Call("report_failure", proxy_url, is_ban, RETURNED_NONE)
    /\ UNCHANGED <<proxies_list, strategy, current_index, domain_sticky_proxies,
                   now>>

\* a report_failure that counts the rest window from the entry's last_used
ReportFailureRestsFromLastUsed(proxy_url, is_ban) ==
    /\ IF proxy_url \in DOMAIN proxies
       THEN proxies' = [proxies EXCEPT
                ![proxy_url].stats.failure_count = @ + 1,
                ![proxy_url].stats.ban_count = IF is_ban THEN @ + 1 ELSE @,
                ![proxy_url].stats.rest_until =
                    IF is_ban
                    THEN proxies[proxy_url].stats.last_used + REST_SECONDS
                    ELSE @,
                ![proxy_url].stats.last_used = now]
       ELSE UNCHANGED proxies
    /\ Call("report_failure", proxy_url, is_ban, RETURNED_NONE)
    /\ UNCHANGED <<proxies_list, strategy, current_index, domain_sticky_proxies,
                   now>>

\* a report_failure that counts a ban as a ban only
ReportFailureBanSkipsFailureCount(proxy_url, is_ban) ==
    /\ IF proxy_url \in DOMAIN proxies
       THEN proxies' = [proxies EXCEPT
                ![proxy_url].stats.failure_count = IF is_ban THEN @ ELSE @ + 1,
                ![proxy_url].stats.ban_count = IF is_ban THEN @ + 1 ELSE @,
                ![proxy_url].stats.rest_until =
                    IF is_ban THEN now + REST_SECONDS ELSE @,
                ![proxy_url].stats.last_used = now]
       ELSE UNCHANGED proxies
    /\ Call("report_failure", proxy_url, is_ban, RETURNED_NONE)
    /\ UNCHANGED <<proxies_list, strategy, current_index, domain_sticky_proxies,
                   now>>

\* a report_failure that keeps a rest window already in progress
ReportFailureKeepsWindow(proxy_url, is_ban) ==
    /\ IF proxy_url \in DOMAIN proxies
       THEN proxies' = [proxies EXCEPT
                ![proxy_url].stats.failure_count = @ + 1,
                ![proxy_url].stats.ban_count = IF is_ban THEN @ + 1 ELSE @,
                ![proxy_url].stats.rest_until =
                    IF is_ban /\ now >= @ THEN now + REST_SECONDS ELSE @,
                ![proxy_url].stats.last_used = now]
       ELSE UNCHANGED proxies
    /\ Call("report_failure", proxy_url, is_ban, RETURNED_NONE)
    /\ UNCHANGED <<proxies_list, strategy, current_index, domain_sticky_proxies,
                   now>>

report_failure(proxy_url, is_ban) ==
    /\ IF proxy_url \in DOMAIN proxies
       THEN proxies' = [proxies EXCEPT
                ![proxy_url].stats.failure_count = @ + 1,
                ![proxy_url].stats.ban_count = IF is_ban THEN @ + 1 ELSE @,
                ![proxy_url].stats.rest_until =
                    IF is_ban THEN now + REST_SECONDS ELSE @,
                ![proxy_url].stats.last_used = now]
       ELSE UNCHANGED proxies
    /\ Call("report_failure", proxy_url, is_ban, RETURNED_NONE)
    /\ UNCHANGED <<proxies_list, strategy, current_index, domain_sticky_proxies,
                   now>>

\* a success rate that leaves the bans out of the denominator
SuccessRateOverNonBans(stats) ==
    LET counted == total_requests(stats) - stats.ban_count
    IN  IF counted = 0 THEN 0 ELSE (stats.success_count * 100) \div counted

\* success_rate in per cent (0 when no request was made)
success_rate(stats) ==
    IF total_requests(stats) = 0 THEN 0
    ELSE (stats.success_count * 100) \div total_requests(stats)

\* a dict that holds the eligible entries only
StatsSnapshotOfEligible ==
    [u \in {v \in DOMAIN proxies : IsActive(v)} |->
        [success_rate |-> success_rate(proxies[u].stats),
         total_requests |-> total_requests(proxies[u].stats),
         bans |-> proxies[u].stats.ban_count,
         state |-> proxies[u].state,
         last_used |-> proxies[u].stats.last_used]]

\* the dict get_stats returns
StatsSnapshot ==
    [u \in DOMAIN proxies |->
        [success_rate |-> success_rate(proxies[u].stats),
         total_requests |-> total_requests(proxies[u].stats),
         bans |-> proxies[u].stats.ban_count,
         state |-> proxies[u].state,
         last_used |-> proxies[u].stats.last_used]]

get_stats ==
    /\ Call("get_stats", NO_DOMAIN, FALSE, RETURNED_NONE)
    /\ UNCHANGED <<pool, now>>

\* ------------------------------------------- the reports, statement by statement
\* report_success and report_failure as several threads run them: the with
\* statement, the load and the store of `count += 1`, the remaining
\* assignments, and the end of the with block.
Goto(t, label) == threads' = [threads EXCEPT ![t].pc = label]
Counter(t) ==
    IF threads[t].op = "report_success" THEN "success_count" ELSE "failure_count"

\* a thread enters report_success(proxy_url) or report_failure(proxy_url, is_ban)
thread_call(t, op, proxy_url, is_ban) ==
    /\ threads[t].pc = "idle"
    /\ threads' = [threads EXCEPT ![t] =
           [pc |-> "with", op |-> op, proxy_url |-> proxy_url,
            is_ban |-> is_ban, count |-> 0, args |-> ABSENT,
            ret |-> RETURNED_NONE]]
    /\ UNCHANGED <<pool, now, last, lock>>

\* a thread enters get_proxy(domain), set_strategy(strategy),
\* configure_proxy(proxy_url, **kwargs) or get_stats(); args is the argument
\* that is no proxy url
thread_enter(t, op, proxy_url, args) ==
    /\ threads[t].pc = "idle"
    /\ threads' = [threads EXCEPT ![t] =
           [pc |-> "with", op |-> op, proxy_url |-> proxy_url,
            is_ban |-> FALSE, count |-> 0, args |-> args,
            ret |-> RETURNED_NONE]]
    /\ UNCHANGED <<pool, now, last, lock>>

\* a with statement that enters without waiting for the lock
LockAcquireUnguarded(t) ==
    /\ threads[t].pc = "with"
    /\ lock' = t
    /\ Goto(t, "load")
    /\ UNCHANGED <<pool, now, last>>

\* with self.lock: blocks until the lock is free, then holds it
lock_acquire(t) ==
    /\ threads[t].pc = "with"
    /\ lock = FREE
    /\ lock' = t
    /\ Goto(t, "load")
    /\ UNCHANGED <<pool, now, last>>

\* if proxy_url in self.proxies, and the read of `count += 1`
counter_load(t) ==
    /\ threads[t].pc = "load"
    /\ threads[t].op \in {"report_success", "report_failure"}
    /\ IF threads[t].proxy_url \in DOMAIN proxies
       THEN threads' = [threads EXCEPT
                ![t].pc = "store",
                ![t].count = proxies[threads[t].proxy_url].stats[Counter(t)]]
       ELSE Goto(t, "exit")
    /\ UNCHANGED <<pool, now, last, lock>>

\* the write of `count += 1`
counter_store(t) ==
    /\ threads[t].pc = "store"
    /\ proxies' = [proxies EXCEPT
          ![threads[t].proxy_url].stats[Counter(t)] = threads[t].count + 1]
    /\ Goto(t, "rest")
    /\ UNCHANGED <<proxies_list, strategy, current_index, domain_sticky_proxies,
                   now, last, lock>>

\* the assignments after the counter: ban_count and rest_until on a ban, last_used
stats_stamp(t) ==
    /\ threads[t].pc = "rest"
    /\ LET banned == threads[t].op = "report_failure" /\ threads[t].is_ban
       IN  proxies' = [proxies EXCEPT
              ![threads[t].proxy_url].stats.ban_count =
                  IF banned THEN @ + 1 ELSE @,
              ![threads[t].proxy_url].stats.rest_until =
                  IF banned THEN now + REST_SECONDS ELSE @,
              ![threads[t].proxy_url].stats.last_used = now]
    /\ Goto(t, "exit")
    /\ UNCHANGED <<proxies_list, strategy, current_index, domain_sticky_proxies,
                   now, last, lock>>

\* the body of get_proxy, set_strategy, configure_proxy or get_stats, run by
\* the thread that holds the lock; the pickers get_proxy delegates to take no
\* lock themselves; the thread keeps what the body returned, or that it raised
locked_call(t) ==
    /\ threads[t].pc = "load"
    /\ lock = t
    /\ \/ threads[t].op = "get_proxy" /\ get_proxy(threads[t].args)
       \/ threads[t].op = "set_strategy" /\ set_strategy(threads[t].args)
       \/ /\ threads[t].op = "configure_proxy"
          /\ configure_proxy(threads[t].proxy_url, threads[t].args)
       \/ threads[t].op = "get_stats" /\ get_stats
    /\ threads' = [threads EXCEPT ![t].pc = "exit", ![t].ret = last'.ret]
    /\ UNCHANGED lock

\* an exit that keeps the lock when the body raised
LockKeptOnRaise(t) ==
    /\ threads[t].pc = "exit"
    /\ lock' = IF threads[t].ret = RAISED THEN lock ELSE FREE
    /\ Goto(t, "done")
    /\ IF threads[t].op \in {"report_success", "report_failure"}
       THEN Call(threads[t].op, threads[t].proxy_url, threads[t].is_ban,
                 RETURNED_NONE)
       ELSE UNCHANGED last
    /\ UNCHANGED <<pool, now>>

\* the end of the with block releases the lock, on return and on raise alike;
\* a report returns None
lock_release(t) ==
    /\ threads[t].pc = "exit"
    /\ lock' = FREE
    /\ Goto(t, "done")
    /\ IF threads[t].op \in {"report_success", "report_failure"}
       THEN Call(threads[t].op, threads[t].proxy_url, threads[t].is_ban,
                 RETURNED_NONE)
       ELSE UNCHANGED last
    /\ UNCHANGED <<pool, now>>

\* get_proxy() as one of several threads calls it: the whole body runs under
\* self.lock, so the call is one step taken while no other thread holds the
\* lock; the thread keeps what the call returned and is free to call again
caller_get_proxy(t) ==
    /\ lock = FREE
    /\ get_proxy(NO_DOMAIN)
    /\ threads' = [threads EXCEPT ![t] =
           [pc |-> "idle", op |-> "get_proxy", proxy_url |-> last'.ret,
            is_ban |-> FALSE, count |-> 0, args |-> NO_DOMAIN,
            ret |-> last'.ret]]
    /\ UNCHANGED lock

\* time.time() advances between two operations
Tick ==
    \E d \in TICK_STEPS :
        /\ now' = now + d
        /\ Call("tick", NO_DOMAIN, FALSE, RETURNED_NONE)
        /\ UNCHANGED pool

\* ------------------------------------------------------ the crawl agents
\* InteractiveSpider of agents/navigator.py and the spider of
\* agents/analyzer.py hold the same create_request and handle_error. One
\* request is followed: state is "none" before create_request, "pending"
\* while the download runs, "failed" when the errback is due, "reported"
\* inside handle_error after its report, "dropped" when nothing is re-issued,
\* "done" after a response.

\* if failure.request.meta.get('retry_count', 0) < 3
RETRY_LIMIT == 3

\* create_request(url): get_proxy(domain) and the meta of the new request;
\* an exception of get_proxy leaves no request
create_request(domain) ==
    /\ request.state = "none"
    /\ get_proxy(domain)
    /\ request' =
          IF last'.ret = RAISED
          THEN [request EXCEPT !.state = "dropped"]
          ELSE [state |-> "pending", domain |-> domain, proxy_url |-> last'.ret,
                retry_count |-> 0, banned |-> FALSE]

\* the download succeeds and the callback runs
response_received ==
    /\ request.state = "pending"
    /\ request' = [request EXCEPT !.state = "done"]
    /\ UNCHANGED <<pool, now, last>>

\* the download fails; banned tells whether the text of the error holds
\* 'banned', whatever the case of its letters
request_fails(banned) ==
    /\ request.state = "pending"
    /\ request' = [request EXCEPT !.state = "failed", !.banned = banned]
    /\ UNCHANGED <<pool, now, last>>

\* handle_error, first half: report_failure for meta['proxy_url']
handle_error_report ==
    /\ request.state = "failed"
    /\ report_failure(request.proxy_url, request.banned)
    /\ request' = [request EXCEPT !.state = "reported"]

\* handle_error, second half: while retry_count < 3 a copy of the request
\* with retry_count + 1 and the outcome of get_proxy(meta['domain']) is
\* yielded; an exception of get_proxy ends the handler with nothing yielded
handle_error_retry ==
    /\ request.state = "reported"
    /\ IF request.retry_count < RETRY_LIMIT
       THEN /\ get_proxy(request.domain)
            /\ request' =
                  IF last'.ret = RAISED
                  THEN [request EXCEPT !.state = "dropped"]
                  ELSE [request EXCEPT !.state = "pending",
                                       !.retry_count = @ + 1,
                                       !.proxy_url = last'.ret]
       ELSE /\ request' = [request EXCEPT !.state = "dropped"]
            /\ UNCHANGED <<pool, now, last>>

\* ---------------------------------------------------------------- observers
\* What a test harness around the pool would note down; none of it is read by
\* the operations above.
LastK(s, k) == IF Len(s) <= k THEN s ELSE SubSeq(s, Len(s) - k + 1, Len(s))

Returned == last'.op = "get_proxy" /\ last'.ret # RAISED

\* the write counter and the time of each entry's last ban
ObserveHealth ==
    /\ configs' = IF last'.op = "configure_proxy" THEN configs + 1 ELSE configs
    /\ ban_time' =
          [u \in DOMAIN proxies |->
              IF last'.op = "report_failure" /\ last'.arg = u /\ last'.is_ban
              THEN now
              ELSE IF last'.op = "configure_proxy" /\ last'.arg = u
              THEN -1
              ELSE ban_time[u]]

\* the url each domain is pinned to: the one a sticky get_proxy returned for it,
\* for as long as that entry has stayed eligible
ObserveSticky ==
    /\ pinned' =
          [d \in DOMAINS |->
              LET cur == IF Returned /\ last'.arg = d /\ strategy = "sticky_session"
                         THEN last'.ret
                         ELSE pinned[d]
              IN  IF cur # ABSENT /\ ActiveAt(proxies'[cur], now')
                  THEN cur
                  ELSE ABSENT]
    /\ pinned_hit' =
          /\ last'.op = "get_proxy"
          /\ strategy = "sticky_session"
          /\ last'.arg \in DOMAINS
          /\ pinned[last'.arg] # ABSENT

\* the latest round-robin returns over an unchanged eligible list (at most as
\* many as the list has members), and the returns since construction
ObserveRoundRobin ==
    /\ rr_window' =
          IF strategy' # "round_robin" \/ active_proxies' # active_proxies
          THEN <<>>
          ELSE IF Returned /\ strategy = "round_robin"
          THEN LastK(Append(rr_window, last'.ret), Len(active_proxies))
          ELSE rr_window
    /\ recording' =
          /\ recording
          /\ strategy = "round_robin"
          /\ last'.op = "get_proxy"
          /\ Len(first_calls) < MaxCalls
    /\ first_calls' =
          IF recording' THEN Append(first_calls, last'.ret) ELSE <<>>

sticky_observers == <<pinned, pinned_hit>>
round_robin_observers == <<rr_window, first_calls, recording>>

\* the first get_proxy outcome since construction
ObserveFirstCall ==
    /\ first_calls' =
          IF first_calls = <<>> /\ Returned THEN <<last'.ret>> ELSE first_calls
    /\ UNCHANGED <<rr_window, recording>>

\* the operations below run one at a time, each under the lock from its first
\* statement to its last
\* a step of the pool alone, with no crawl agent's request involved
NoAgent == UNCHANGED request
Serial == UNCHANGED thread_state /\ NoAgent
Observe ==
    /\ ObserveHealth /\ Serial
    /\ UNCHANGED <<sticky_observers, round_robin_observers, call_observers>>
ObserveRR ==
    /\ ObserveHealth /\ ObserveRoundRobin /\ Serial
    /\ UNCHANGED <<sticky_observers, call_observers>>
ObserveSS ==
    /\ ObserveHealth /\ ObserveSticky /\ Serial
    /\ UNCHANGED <<round_robin_observers, call_observers>>
ObserveFirst ==
    /\ ObserveHealth /\ ObserveFirstCall /\ Serial
    /\ UNCHANGED <<sticky_observers, call_observers>>

\* ------------------------------------------------------------ specification
\* the keyword combinations passed: none, one keyword alone, or all three
KWARGS ==
    LET all == [active_percentage : {{}} \cup {{v} : v \in ACTIVE_PERCENTAGES},
                domain_rules : {{}} \cup {{v} : v \in DOMAIN_RULES},
                rest_time : {{}} \cup {{v} : v \in REST_TIMES}]
        passed(kw) == Cardinality({k \in DOMAIN kw : kw[k] # {}})
    IN  {kw \in all : passed(kw) # 2}

NoKwargs == [active_percentage |-> {}, domain_rules |-> {}, rest_time |-> {}]
\* a thread that has not called yet
\* before create_request: no request, no meta
NoRequest ==
    [state |-> "none", domain |-> NO_DOMAIN, proxy_url |-> ABSENT,
     retry_count |-> 0, banned |-> FALSE]

IdleThread ==
    [pc |-> "idle", op |-> "none", proxy_url |-> ABSENT, is_ban |-> FALSE,
     count |-> 0, args |-> ABSENT, ret |-> RETURNED_NONE]

Started ==
    /\ now = 0
    /\ last = [op |-> "__init__", arg |-> NO_DOMAIN, is_ban |-> FALSE,
               ret |-> RETURNED_NONE]
    /\ configs = 0
    /\ ban_time = [u \in DOMAIN proxies |-> -1]
    /\ pinned = [d \in DOMAINS |-> ABSENT]
    /\ pinned_hit = FALSE
    /\ rr_window = <<>>
    /\ first_calls = <<>>
    /\ recording = TRUE
    /\ last_kwargs = NoKwargs
    /\ stats_returned = EmptyDict
    /\ switched = ABSENT
    /\ lock = FREE
    /\ threads = [t \in THREADS |-> IdleThread]
    /\ request = NoRequest

Init ==
    /\ \E list \in PROXY_LISTS, strat \in RotationStrategy : Construct(list, strat)
    /\ Started

\* the calls that write to the entries, counted: the reports the entries have
\* recorded and the configure_proxy calls
Writes == SumRequests(proxies_list) + configs
MayWrite == Writes < MaxWrites
MayTick == \E d \in TICK_STEPS : now + d <= MaxTime

GetProxy == \E domain \in {"a.com", NO_DOMAIN} : get_proxy(domain)
GetProxyAnyDomain == \E domain \in DOMAINS \cup {NO_DOMAIN} : get_proxy(domain)
SetStrategy == \E new_strategy \in RotationStrategy : set_strategy(new_strategy)
ConfigureProxy ==
    \E proxy_url \in DOMAIN proxies \cup {UNKNOWN_URL}, kwargs \in KWARGS :
        MayWrite /\ configure_proxy(proxy_url, kwargs)
ReportSuccess ==
    \E proxy_url \in DOMAIN proxies \cup {UNKNOWN_URL} :
        MayWrite /\ report_success(proxy_url)
ReportFailure ==
    \E proxy_url \in DOMAIN proxies \cup {UNKNOWN_URL}, is_ban \in BOOLEAN :
        MayWrite /\ report_failure(proxy_url, is_ban)
GetStats == get_stats
TimePasses == MayTick /\ Tick

\* Every operation of the pool, on the pools of PROXY_LISTS under any strategy.
Next ==
    \/ GetProxy /\ Observe
    \/ SetStrategy /\ Observe
    \/ ConfigureProxy /\ Observe
    \/ ReportSuccess /\ Observe
    \/ ReportFailure /\ Observe
    \/ GetStats /\ Observe
    \/ TimePasses /\ Observe

Spec == Init /\ [][Next]_vars

\* The round-robin scenario: the pool [A, B, C] constructed with round_robin,
\* then selections, outcome reports and the passage of time.
InitRoundRobin ==
    /\ Construct(ABC_LIST, "round_robin")
    /\ Started

NextRoundRobin ==
    \/ GetProxy /\ ObserveRR
    \/ ReportSuccess /\ ObserveRR
    \/ ReportFailure /\ ObserveRR
    \/ TimePasses /\ ObserveRR

SpecRoundRobin == InitRoundRobin /\ [][NextRoundRobin]_vars

\* The sticky-session scenario: a pool constructed with sticky_session and
\* asked for proxies of two domains.
InitSticky ==
    /\ \E list \in {ABC_LIST} \cup PROXY_LISTS : Construct(list, "sticky_session")
    /\ Started

NextSticky ==
    \/ GetProxyAnyDomain /\ ObserveSS
    \/ ReportSuccess /\ ObserveSS
    \/ ReportFailure /\ ObserveSS
    \/ TimePasses /\ ObserveSS

SpecSticky == InitSticky /\ [][NextSticky]_vars

\* The scenarios of one strategy make up to MaxScenarioWrites writes.
MayWriteMore == Writes < MaxScenarioWrites

ConfigureRules ==
    \E proxy_url \in DOMAIN proxies, rules \in SCENARIO_RULES :
        /\ MayWriteMore
        /\ configure_proxy(proxy_url, [NoKwargs EXCEPT !.domain_rules = {rules}])
ReportSuccessMore ==
    \E proxy_url \in DOMAIN proxies : MayWriteMore /\ report_success(proxy_url)
ReportFailureMore ==
    \E proxy_url \in DOMAIN proxies, is_ban \in BOOLEAN :
        MayWriteMore /\ report_failure(proxy_url, is_ban)

\* The custom-rules scenario: a pool constructed with custom_rules, rules
\* configured per proxy, failures and bans reported.
InitCustomRules ==
    /\ \E list \in {ABC_LIST} \cup PROXY_LISTS : Construct(list, "custom_rules")
    /\ Started

NextCustomRules ==
    \/ GetProxyAnyDomain /\ Observe
    \/ ConfigureRules /\ Observe
    \/ ReportFailureMore /\ Observe
    \/ TimePasses /\ Observe

SpecCustomRules == InitCustomRules /\ [][NextCustomRules]_vars

\* The percentage scenario: a pool constructed with percentage_active, target
\* shares configured per proxy, outcomes reported.
ConfigureShare ==
    \E proxy_url \in DOMAIN proxies, share \in SCENARIO_SHARES :
        /\ MayWriteMore
        /\ configure_proxy(proxy_url,
                           [NoKwargs EXCEPT !.active_percentage = {share}])
GetProxyNoDomain == get_proxy(NO_DOMAIN)

InitPercentage ==
    /\ \E list \in {ABC_LIST} \cup PROXY_LISTS :
            Construct(list, "percentage_active")
    /\ Started

NextPercentage ==
    \/ GetProxyNoDomain /\ Observe
    \/ ConfigureShare /\ Observe
    \/ ReportSuccessMore /\ Observe
    \/ ReportFailureMore /\ Observe
    \/ TimePasses /\ Observe

SpecPercentage == InitPercentage /\ [][NextPercentage]_vars

\* The rest-ready scenario: a pool constructed with rest_ready, outcomes
\* reported at different times.
InitRestReady ==
    /\ \E list \in {ABC_LIST} \cup PROXY_LISTS : Construct(list, "rest_ready")
    /\ Started

NextRestReady ==
    \/ GetProxyNoDomain /\ Observe
    \/ ReportSuccessMore /\ Observe
    \/ ReportFailureMore /\ Observe
    \/ TimePasses /\ Observe

SpecRestReady == InitRestReady /\ [][NextRestReady]_vars

\* The convergence scenario: two proxies are given their target shares, then
\* every selection is at once reported as a success on the returned proxy.
Configured == \A u \in DOMAIN proxies : proxies[u].stats.active_percentage # 0

ConfigureTarget ==
    \E proxy_url \in DOMAIN proxies :
        /\ proxies[proxy_url].stats.active_percentage = 0
        /\ configure_proxy(proxy_url,
              [NoKwargs EXCEPT !.active_percentage = {TARGET_SHARES[proxy_url]}])
SelectNext ==
    /\ Configured
    /\ last.op # "get_proxy"
    /\ SumRequests(proxies_list) < MaxSelections
    /\ get_proxy(NO_DOMAIN)
ReportReturned ==
    /\ last.op = "get_proxy"
    /\ report_success(last.ret)

InitConvergence ==
    /\ \E list \in AB_LISTS : Construct(list, "percentage_active")
    /\ Started

NextConvergence ==
    \/ ConfigureTarget /\ ObserveFirst
    \/ SelectNext /\ ObserveFirst
    \/ ReportReturned /\ ObserveFirst

SpecConvergence == InitConvergence /\ [][NextConvergence]_vars

\* The threads scenario: each thread makes one outcome report; the threads
\* interleave statement by statement.
ObserveThreads ==
    /\ ObserveHealth /\ NoAgent
    /\ UNCHANGED <<sticky_observers, round_robin_observers, call_observers>>

ThreadCalls ==
    \E t \in THREADS, proxy_url \in DOMAIN proxies \cup {UNKNOWN_URL} :
        \/ thread_call(t, "report_success", proxy_url, FALSE)
        \/ \E is_ban \in BOOLEAN : thread_call(t, "report_failure", proxy_url, is_ban)
LockAcquire == \E t \in THREADS : lock_acquire(t)
CounterLoad == \E t \in THREADS : counter_load(t)
CounterStore == \E t \in THREADS : counter_store(t)
StatsStamp == \E t \in THREADS : stats_stamp(t)
LockRelease == \E t \in THREADS : lock_release(t)

InitThreads ==
    /\ \E list \in PROXY_LISTS : Construct(list, "random")
    /\ Started

NextThreads ==
    \/ ThreadCalls /\ ObserveThreads
    \/ LockAcquire /\ ObserveThreads
    \/ CounterLoad /\ ObserveThreads
    \/ CounterStore /\ ObserveThreads
    \/ StatsStamp /\ ObserveThreads
    \/ LockRelease /\ ObserveThreads

SpecThreads == InitThreads /\ [][NextThreads]_vars

\* The configuration scenario: configure_proxy called with values in and out
\* of range, then selections as time passes.
RANGE_KWARGS ==
    {[NoKwargs EXCEPT !.active_percentage = {v}] :
        v \in ACTIVE_PERCENTAGES \cup OUT_OF_RANGE_SHARES}
    \cup {[NoKwargs EXCEPT !.rest_time = {v}] :
        v \in REST_TIMES \cup NEGATIVE_REST_TIMES}

ConfigureAnyRange ==
    \E proxy_url \in DOMAIN proxies, kwargs \in RANGE_KWARGS :
        /\ MayWriteMore
        /\ configure_proxy(proxy_url, kwargs)
        /\ last_kwargs' = kwargs
ObserveKwargs ==
    /\ ObserveHealth /\ Serial
    /\ UNCHANGED <<sticky_observers, round_robin_observers, stats_returned,
                   switched>>

InitConfigure ==
    /\ \E list \in PROXY_LISTS : Construct(list, "percentage_active")
    /\ Started

NextConfigure ==
    \/ ConfigureAnyRange /\ ObserveKwargs
    \/ GetProxyNoDomain /\ Observe
    \/ ReportSuccessMore /\ Observe
    \/ ReportFailureMore /\ Observe
    \/ TimePasses /\ Observe

SpecConfigure == InitConfigure /\ [][NextConfigure]_vars

\* The strategy scenario: the strategy is switched at run time, to members of
\* RotationStrategy and to other values, between selections and reports.
ObserveSwitch ==
    switched' =
        IF last'.op = "set_strategy" THEN last'.arg
        ELSE IF last'.op = "get_proxy" /\ last.op = "set_strategy" THEN last.arg
        ELSE ABSENT
ObserveST ==
    /\ ObserveHealth /\ Serial /\ ObserveSwitch
    /\ UNCHANGED <<sticky_observers, round_robin_observers, last_kwargs,
                   stats_returned>>

SetAnyStrategy ==
    \E new_strategy \in RotationStrategy \cup OTHER_STRATEGIES :
        set_strategy(new_strategy)

InitStrategy ==
    /\ \E list \in PROXY_LISTS, strat \in RotationStrategy : Construct(list, strat)
    /\ Started

NextStrategy ==
    \/ GetProxy /\ ObserveST
    \/ SetAnyStrategy /\ ObserveST
    \/ ReportSuccess /\ ObserveST
    \/ ReportFailure /\ ObserveST
    \/ TimePasses /\ ObserveST

SpecStrategy == InitStrategy /\ [][NextStrategy]_vars

\* The statistics scenario: every public operation, with the dict of each
\* get_stats call kept until the next operation.
ObserveStats ==
    /\ ObserveHealth /\ Serial
    /\ stats_returned' = IF last'.op = "get_stats" THEN StatsSnapshot' ELSE EmptyDict
    /\ UNCHANGED <<sticky_observers, round_robin_observers, last_kwargs, switched>>

SwitchStrategy ==
    \E new_strategy \in {"random", "round_robin"} : set_strategy(new_strategy)
\* one write more than in the general specification
MayWriteAgain == Writes <= MaxWrites
ConfigureProxyAgain ==
    \E proxy_url \in DOMAIN proxies \cup {UNKNOWN_URL}, kwargs \in KWARGS :
        MayWriteAgain /\ configure_proxy(proxy_url, kwargs)
ReportSuccessAgain ==
    \E proxy_url \in DOMAIN proxies \cup {UNKNOWN_URL} :
        MayWriteAgain /\ report_success(proxy_url)
ReportFailureAgain ==
    \E proxy_url \in DOMAIN proxies \cup {UNKNOWN_URL}, is_ban \in BOOLEAN :
        MayWriteAgain /\ report_failure(proxy_url, is_ban)

InitStats ==
    /\ \E list \in PROXY_LISTS : Construct(list, "random")
    /\ Started

NextStats ==
    \/ GetProxyNoDomain /\ ObserveStats
    \/ SwitchStrategy /\ ObserveStats
    \/ ConfigureProxyAgain /\ ObserveStats
    \/ ReportSuccessAgain /\ ObserveStats
    \/ ReportFailureAgain /\ ObserveStats
    \/ GetStats /\ ObserveStats
    \/ TimePasses /\ ObserveStats

SpecStats == InitStats /\ [][NextStats]_vars

\* The healing scenario: bans and rest configurations whose window ends
\* within MaxTime, selections, and a clock that keeps advancing.
BanInTime ==
    \E proxy_url \in DOMAIN proxies :
        /\ MayWriteMore
        /\ now + REST_SECONDS <= MaxTime
        /\ report_failure(proxy_url, TRUE)
RestInTime ==
    \E proxy_url \in DOMAIN proxies, rest_time \in REST_TIMES :
        /\ MayWriteMore
        /\ now + rest_time <= MaxTime
        /\ configure_proxy(proxy_url, [NoKwargs EXCEPT !.rest_time = {rest_time}])

InitHealing ==
    /\ \E list \in {ABC_LIST} \cup PROXY_LISTS : Construct(list, "random")
    /\ Started

NextHealing ==
    \/ GetProxyNoDomain /\ Observe
    \/ BanInTime /\ Observe
    \/ RestInTime /\ Observe
    \/ TimePasses /\ Observe

\* time.time() never stops: the clock step is taken whenever it stays enabled
SpecHealing ==
    InitHealing /\ [][NextHealing]_vars /\ WF_vars(TimePasses /\ Observe)

\* The callers scenario: several threads keep calling get_proxy on a
\* round-robin pool, between a few bans and clock steps.
ObserveCallers ==
    /\ ObserveHealth /\ NoAgent
    /\ UNCHANGED <<sticky_observers, round_robin_observers, call_observers>>
CallersGetProxy == \E t \in THREADS : caller_get_proxy(t)

InitCallers ==
    /\ \E list \in {ABC_LIST} \cup PROXY_LISTS : Construct(list, "round_robin")
    /\ Started

NextCallers ==
    \/ CallersGetProxy /\ ObserveCallers
    \/ BanInTime /\ Observe
    \/ TimePasses /\ Observe

\* the callers keep issuing get_proxy: some thread's call is always taken again
SpecCallers ==
    InitCallers /\ [][NextCallers]_vars /\ WF_vars(CallersGetProxy /\ ObserveCallers)

\* --------------------------------------------------- scenario: the lock
\* Three threads, one call each, of any public method; the pool starts under
\* one of the strategies whose picker delegates to _get_random_proxy. A
\* thread that can take a step eventually takes one.
LOCKING_STRATEGIES == {"percentage_active", "sticky_session", "custom_rules"}
ObserveLocking == UNCHANGED observers /\ NoAgent

ThreadEnters ==
    \E t \in THREADS :
        \/ \E domain \in {"a.com", NO_DOMAIN} :
              thread_enter(t, "get_proxy", ABSENT, domain)
        \/ thread_enter(t, "set_strategy", ABSENT, "random")
        \/ \E proxy_url \in DOMAIN proxies, kwargs \in {[NoKwargs EXCEPT
                    !.domain_rules = {v}] : v \in DOMAIN_RULES} :
              thread_enter(t, "configure_proxy", proxy_url, kwargs)
        \/ thread_enter(t, "get_stats", ABSENT, ABSENT)
ThreadReports ==
    \E t \in THREADS :
        \/ thread_call(t, "report_success", proxies_list[1], FALSE)
        \/ thread_call(t, "report_failure", proxies_list[Len(proxies_list)], TRUE)
LockedCall == \E t \in THREADS : locked_call(t)

InitLocking ==
    /\ \E list \in PROXY_LISTS, strat \in LOCKING_STRATEGIES : Construct(list, strat)
    /\ Started

ThreadStep(t) ==
    \/ lock_acquire(t) /\ ObserveLocking
    \/ locked_call(t) /\ ObserveLocking
    \/ counter_load(t) /\ ObserveLocking
    \/ counter_store(t) /\ ObserveLocking
    \/ stats_stamp(t) /\ ObserveLocking
    \/ lock_release(t) /\ ObserveLocking

NextLocking ==
    \/ ThreadEnters /\ ObserveLocking
    \/ ThreadReports /\ ObserveLocking
    \/ LockAcquire /\ ObserveLocking
    \/ LockedCall /\ ObserveLocking
    \/ CounterLoad /\ ObserveLocking
    \/ CounterStore /\ ObserveLocking
    \/ StatsStamp /\ ObserveLocking
    \/ LockRelease /\ ObserveLocking

SpecLocking ==
    /\ InitLocking
    /\ [][NextLocking]_vars
    /\ \A t \in THREADS : WF_vars(ThreadStep(t))

\* ------------------------------------------- scenario: a request retried
\* One request of a crawl agent, on the pools of PROXY_LISTS under any
\* strategy; the clock moves while the download runs.
ObserveRetry == UNCHANGED <<observers, thread_state>>

CreateRequest == \E domain \in {"a.com"} : create_request(domain)
ResponseReceived == response_received
RequestFails == \E banned \in BOOLEAN : request_fails(banned)
HandleErrorReport == handle_error_report
HandleErrorRetry == handle_error_retry
DownloadTakesTime ==
    /\ request.state = "pending"
    /\ TimePasses
    /\ UNCHANGED request

InitRetry ==
    /\ \E list \in PROXY_LISTS, strat \in RotationStrategy : Construct(list, strat)
    /\ Started

NextRetry ==
    \/ CreateRequest /\ ObserveRetry
    \/ ResponseReceived /\ ObserveRetry
    \/ RequestFails /\ ObserveRetry
    \/ HandleErrorReport /\ ObserveRetry
    \/ HandleErrorRetry /\ ObserveRetry
    \/ DownloadTakesTime /\ ObserveRetry

SpecRetry == InitRetry /\ [][NextRetry]_vars

\* ------------------------------------------------------------------- claims
GotProxy == last.op = "get_proxy" /\ last.ret # RAISED
Reported(st) == st.op \in {"report_success", "report_failure"}

\* C1: every proxy get_proxy returns is eligible at the time of the call: its
\* state is active and now >= its rest_until (get_proxy changes neither).
C1_ReturnedProxyIsEligible == GotProxy => IsActive(last.ret)

\* C2: after a ban report on an entry at time t, and as long as no later ban or
\* configure call touches it, the entry is ineligible at every time before
\* t + 300 and eligible at every time from t + 300 on.
C2_BanRestsFor300Seconds ==
    \A u \in DOMAIN proxies :
        ban_time[u] >= 0 => (IsActive(u) <=> now >= ban_time[u] + 300)

\* C2 witness: the clock has passed the end of a rest window and the banned
\* entry is eligible again.
C2_Witness ==
    \E u \in DOMAIN proxies :
        /\ ban_time[u] >= 0
        /\ now >= ban_time[u] + 300
        /\ proxies[u].stats.ban_count > 0
        /\ IsActive(u)

\* C3: a report_failure call without ban leaves every entry's rest_until,
\* state, ban_count and success_count as they were, adds exactly one to the
\* failure_count of the reported entry and to no other, and makes no eligible
\* entry ineligible.
C3_NonBanFailureFrame ==
    [][(last'.op = "report_failure" /\ ~last'.is_ban
            /\ last'.arg \in DOMAIN proxies)
        => \A u \in DOMAIN proxies :
              LET old == proxies[u].stats
                  new == proxies'[u].stats
              IN  /\ new.rest_until = old.rest_until
                  /\ proxies'[u].state = proxies[u].state
                  /\ new.ban_count = old.ban_count
                  /\ new.success_count = old.success_count
                  /\ new.failure_count =
                        old.failure_count + (IF u = last'.arg THEN 1 ELSE 0)
                  /\ IsActive(u) => ActiveAt(proxies'[u], now')]_vars

\* C3 witness: a non-ban failure was just reported for an entry of the pool.
C3_Witness ==
    /\ last.op = "report_failure"
    /\ ~last.is_ban
    /\ last.arg \in DOMAIN proxies
    /\ proxies[last.arg].stats.failure_count > 0
    /\ IsActive(last.arg)

\* C4: a get_proxy call made while no entry is eligible raises, under every
\* strategy, and returns no proxy.
C4_EmptyEligibleSetRaises ==
    (last.op = "get_proxy" /\ active_proxies = <<>>) => last.ret = RAISED

C6_SelectionStampsLastUsed ==
    GotProxy => proxies[last.ret].stats.last_used = now

\* C7: the pool [A, B, C] constructed with round_robin, all entries eligible:
\* the first four get_proxy calls return A, B, C, A in that order.
C7_RoundRobinStartsAtFirstEntry ==
    (recording /\ proxies_list = ABC_LIST)
        => \A i \in 1..Len(first_calls) :
              i <= 4 => first_calls[i] = <<"A", "B", "C", "A">>[i]

\* C8: under round_robin, the latest k get_proxy calls made over an unchanged
\* eligible set of k members returned pairwise distinct urls.
C8_RoundRobinVisitsAllBeforeRepeat ==
    strategy = "round_robin"
        => \A i, j \in 1..Len(rr_window) :
              i # j => rr_window[i] # rr_window[j]

\* C8 witness: a full window over an eligible set that a ban has shrunk to two
\* members, entered with the index wherever the calls before the ban left it.
C8_Witness ==
    /\ strategy = "round_robin"
    /\ Len(active_proxies) = 2
    /\ Len(rr_window) = 2
    /\ current_index = 0
    /\ \E u \in DOMAIN proxies : proxies[u].stats.ban_count > 0

\* C9: under sticky_session, a get_proxy(domain) call made while the proxy
\* mapped to the domain is resting after a ban report and some proxy is
\* eligible returns another url and rewrites the map entry of the domain to it.
C9_StickyLeavesRestingProxy ==
    [][\A d \in DOMAINS :
        (/\ last'.op = "get_proxy" /\ last'.arg = d
         /\ strategy = "sticky_session"
         /\ d \in DOMAIN domain_sticky_proxies
         /\ ban_time[domain_sticky_proxies[d]] >= 0
         /\ ~IsActive(domain_sticky_proxies[d])
         /\ active_proxies # <<>>)
        => /\ last'.ret # RAISED
           /\ last'.ret # domain_sticky_proxies[d]
           /\ domain_sticky_proxies'[d] = last'.ret]_vars

\* C10: under sticky_session, once get_proxy(domain) has returned p and while p
\* has stayed eligible since, every get_proxy(domain) returns p again, whatever
\* calls for other domains and outcome reports were made in between.
C10_StickyKeepsEligibleProxy ==
    [][\A d \in DOMAINS :
        (/\ last'.op = "get_proxy" /\ last'.arg = d
         /\ strategy = "sticky_session"
         /\ pinned[d] # ABSENT)
        => last'.ret = pinned[d]]_vars

\* C10 witness: a repeated call for a.com has returned, after the other domain
\* was mapped to another proxy and an outcome was reported.
C10_Witness ==
    /\ pinned_hit
    /\ last.arg = "a.com"
    /\ "b.com" \in DOMAIN domain_sticky_proxies
    /\ domain_sticky_proxies["b.com"] # last.ret
    /\ Writes > 0

\* the eligible entries, as a set
Eligible == Range(active_proxies)

\* C15: under percentage_active, while the entries of E have recorded no
\* request, get_proxy can return every member of E, returns only members of E,
\* and raises only when E is empty.
C15_PercentageDegradesToRandom ==
    (strategy = "percentage_active" /\ SumRequests(active_proxies) = 0)
        => /\ \A e \in Eligible :
                ENABLED (get_proxy(NO_DOMAIN) /\ last'.ret = e)
           /\ last.op = "get_proxy"
                => IF Eligible = {} THEN last.ret = RAISED
                   ELSE last.ret \in Eligible

\* C15 witness: with no request recorded, the call returned the second of two
\* eligible entries.
C15_Witness ==
    /\ strategy = "percentage_active"
    /\ SumRequests(active_proxies) = 0
    /\ Len(active_proxies) = 2
    /\ last.op = "get_proxy"
    /\ last.ret = active_proxies[2]

\* C18: under random, get_proxy can return every member of E and returns only
\* members of E (it raises when E is empty).
C18_RandomCoversEligibleSet ==
    strategy = "random"
        => /\ \A e \in Eligible :
                ENABLED (get_proxy(NO_DOMAIN) /\ last'.ret = e)
           /\ last.op = "get_proxy"
                => IF Eligible = {} THEN last.ret = RAISED
                   ELSE last.ret \in Eligible

\* C18 witness: the call returned the second of two eligible entries.
C18_Witness ==
    /\ strategy = "random"
    /\ Len(active_proxies) = 2
    /\ last.op = "get_proxy"
    /\ last.ret = active_proxies[2]

\* the entries whose domain_rules hold False for the domain
Denied(d) ==
    {u \in DOMAIN proxies :
        /\ d \in DOMAIN proxies[u].stats.domain_rules
        /\ ~proxies[u].stats.domain_rules[d]}
CustomRulesCall ==
    strategy = "custom_rules" /\ last.op = "get_proxy" /\ last.arg \in DOMAINS

\* C11 as stated: under custom_rules, a proxy whose rules deny the domain is
\* never returned for it while another eligible proxy exists.
C11_DeniedProxyNeverReturned ==
    CustomRulesCall
        => \A P \in Denied(last.arg) :
              (Eligible \ {P} # {}) => last.ret # P

\* C11 amended: under custom_rules, a proxy whose rules deny the domain is
\* never returned for it while another eligible proxy allows the domain.
C11_DeniedProxySkippedWhenAnotherAllows ==
    CustomRulesCall
        => \A P \in Denied(last.arg) :
              ((Eligible \ {P}) \ Denied(last.arg) # {}) => last.ret # P

\* C11 witness: an eligible proxy denies the domain, another eligible proxy
\* allows it by an explicit rule, and the call returned the latter.
C11_Witness ==
    /\ CustomRulesCall
    /\ Eligible \cap Denied(last.arg) # {}
    /\ last.ret \in Eligible \ Denied(last.arg)
    /\ last.arg \in DOMAIN proxies[last.ret].stats.domain_rules

\* C12: under custom_rules, get_proxy(d) returns an eligible entry that allows
\* d when there is one, any eligible entry when none allows d, and raises only
\* when no entry is eligible.
C12_CustomRulesFilterThenFallback ==
    CustomRulesCall
        => LET allowed == Eligible \ Denied(last.arg)
           IN  IF allowed # {} THEN last.ret \in allowed
               ELSE IF Eligible # {} THEN last.ret \in Eligible
               ELSE last.ret = RAISED

\* C12 witness: every eligible entry denies the domain, one entry rests, and
\* the call fell back to an eligible entry.
C12_Witness ==
    /\ CustomRulesCall
    /\ Eligible # {}
    /\ Eligible \subseteq Denied(last.arg)
    /\ Eligible # DOMAIN proxies
    /\ last.ret \in Eligible

\* the requests recorded across the eligible set
RECURSIVE RequestsOver(_)
RequestsOver(E) ==
    IF E = {} THEN 0
    ELSE LET u == CHOOSE x \in E : TRUE
         IN  proxies[u].stats.success_count + proxies[u].stats.failure_count
                + RequestsOver(E \ {u})

\* whether observed share minus target share of u is at most that of v, the
\* shares taken over the eligible set: requests / T - target / 100, times 100 T
NotAboveTarget(u, v) ==
    LET T == RequestsOver(Eligible)
        requests(x) == proxies[x].stats.success_count + proxies[x].stats.failure_count
    IN  requests(u) * 100 - proxies[u].stats.active_percentage * T
            <= requests(v) * 100 - proxies[v].stats.active_percentage * T
Minimal == {u \in Eligible : \A v \in Eligible : NotAboveTarget(u, v)}

PercentageCall ==
    /\ strategy = "percentage_active"
    /\ last.op = "get_proxy"
    /\ RequestsOver(Eligible) > 0

\* C13: under percentage_active with a request recorded across E, get_proxy
\* returns an entry of E that minimises observed share minus target share,
\* the observed share taken over the requests of E only.
C13_PercentagePicksFurthestBelowTarget ==
    PercentageCall => last.ret \in Minimal

\* C13 witness: a resting entry holds requests, the eligible entries are not
\* all minimal, and the call returned.
C13_Witness ==
    /\ PercentageCall
    /\ last.ret \in Eligible
    /\ Minimal # Eligible
    /\ \E u \in DOMAIN proxies \ Eligible : total_requests(proxies[u].stats) > 0

\* the lexicographic order of the identifiers
IdentifierOrder == <<"A", "B", "C">>
IdentifierRank(u) == CHOOSE i \in 1..Len(IdentifierOrder) : IdentifierOrder[i] = u
ConstructionRank(u) == CHOOSE i \in 1..Len(proxies_list) : proxies_list[i] = u

C17_RestReadyPicksMostIdle ==
    (strategy = "rest_ready" /\ last.op = "get_proxy" /\ Eligible # {})
        => /\ last.ret \in Eligible
           /\ \A e \in Eligible :
                 proxies[last.ret].stats.last_used <= proxies[e].stats.last_used

\* C17 witness: the call returned an entry that was used before another
\* eligible entry although its rest_until is the later one.
C17_Witness ==
    /\ strategy = "rest_ready"
    /\ last.op = "get_proxy"
    /\ last.ret \in Eligible
    /\ \E e \in Eligible :
          /\ proxies[last.ret].stats.last_used < proxies[e].stats.last_used
          /\ proxies[last.ret].stats.rest_until > proxies[e].stats.rest_until

\* the selections made and reported so far
Selections == RequestsOver(DOMAIN proxies)
SelectionsDone ==
    /\ Selections >= 10000
    /\ last.op = "report_success"
    /\ \A u \in DOMAIN proxies :
          proxies[u].stats.active_percentage = TARGET_SHARES[u]

\* C16: with targets 0.7 for A and 0.3 for B, once 10,000 selections have each
\* been reported as a success, A's share of the requests is within 0.02 of
\* 0.7: |requests(A) / N - 0.7| < 0.02, times 100 N.
C16_ShareConvergesToTarget ==
    SelectionsDone
        => LET a == proxies["A"].stats.success_count * 100 - 70 * Selections
           IN  a < 2 * Selections /\ -a < 2 * Selections

\* C16 witness: 10,000 selections are reported and the first of them, made
\* at random, returned B.
C16_Witness ==
    /\ SelectionsDone
    /\ Selections = 10000
    /\ first_calls # <<>>
    /\ first_calls[1] = "B"

\* the calls of one kind the threads have made on one identifier
CallsOf(op, u) ==
    Cardinality({t \in THREADS : threads[t].op = op /\ threads[t].proxy_url = u})
AllReturned == \A t \in THREADS : threads[t].pc = "done"

\* C19: a thread between the read and the end of its report holds the lock,
\* and once the concurrent report_success and report_failure calls have all
\* returned, every entry's success_count equals the number of report_success
\* calls made on it and its failure_count the number of report_failure calls.
C19_NoReportIsLost ==
    /\ \A t \in THREADS :
          threads[t].pc \in {"load", "store", "rest", "exit"} => lock = t
    /\ AllReturned
          => \A u \in DOMAIN proxies :
                /\ proxies[u].stats.success_count = CallsOf("report_success", u)
                /\ proxies[u].stats.failure_count = CallsOf("report_failure", u)

\* C19 witness: three threads have returned, two from report_success and one
\* from report_failure on the same identifier.
C19_Witness ==
    /\ AllReturned
    /\ \E u \in DOMAIN proxies :
          /\ CallsOf("report_success", u) = 2
          /\ CallsOf("report_failure", u) = 1

\* keyword arguments with a share outside [0, 1] or a negative rest_time
OutOfRange(kwargs) ==
    \/ \E v \in kwargs.active_percentage : v < 0 \/ v > 100
    \/ \E v \in kwargs.rest_time : v < 0

\* C20 as stated: a configure_proxy call with an out-of-range share or a
\* negative rest_time raises and leaves every entry's active_percentage,
\* domain_rules and rest_until as they were.
C20_OutOfRangeConfigureRejected ==
    [][(last'.op = "configure_proxy" /\ OutOfRange(last_kwargs'))
          => /\ last'.ret = RAISED
             /\ \A u \in DOMAIN proxies :
                   /\ proxies'[u].stats.active_percentage
                         = proxies[u].stats.active_percentage
                   /\ proxies'[u].stats.domain_rules = proxies[u].stats.domain_rules
                   /\ proxies'[u].stats.rest_until = proxies[u].stats.rest_until]_vars

\* C21 as stated: set_strategy called with a value outside RotationStrategy
\* raises and leaves the strategy in force as it was.
C21_UnknownStrategyRejected ==
    [][(last'.op = "set_strategy" /\ last'.arg \notin RotationStrategy)
          => (last'.ret = RAISED /\ strategy' = strategy)]_vars

\* what a get_proxy(d) step that returns r does under policy s: round robin
\* advances the index and returns the entry there, percentage returns a
\* minimal entry once requests are recorded, rest-ready the entry used longest
\* ago, sticky the mapped entry or a newly mapped one, custom rules an allowed
\* entry if any, and every other case an eligible entry.
FollowsPolicy(s, d, r) ==
    LET anyEligible == IF Eligible = {} THEN r = RAISED ELSE r \in Eligible
        n == Len(active_proxies)
    IN  IF s = "round_robin"
        THEN IF n = 0 THEN r = RAISED /\ current_index' = current_index
             ELSE /\ current_index' = (current_index + 1) % n
                  /\ r = active_proxies[current_index' + 1]
        ELSE /\ current_index' = current_index
             /\ IF s = "percentage_active" /\ RequestsOver(Eligible) > 0
                THEN r \in Minimal
                ELSE IF s = "rest_ready" /\ Eligible # {}
                THEN /\ r \in Eligible
                     /\ \A e \in Eligible :
                           proxies[r].stats.last_used <= proxies[e].stats.last_used
                ELSE IF s = "sticky_session" /\ d # NO_DOMAIN
                THEN IF d \in DOMAIN domain_sticky_proxies
                     THEN r = domain_sticky_proxies[d]
                     ELSE /\ anyEligible
                          /\ r # RAISED => domain_sticky_proxies'[d] = r
                ELSE IF s = "custom_rules" /\ d # NO_DOMAIN
                        /\ Eligible \ Denied(d) # {}
                THEN r \in Eligible \ Denied(d)
                ELSE anyEligible
             /\ (s = "sticky_session" /\ d # NO_DOMAIN)
                  \/ domain_sticky_proxies' = domain_sticky_proxies

\* C23: set_strategy(s) stores s and changes nothing else of the pool, and
\* the get_proxy call that comes right after it selects by policy s.
C23_SwitchTakesEffectOnNextCall ==
    [][/\ last'.op = "set_strategy"
            => /\ strategy' = last'.arg
               /\ UNCHANGED <<proxies_list, proxies, current_index,
                              domain_sticky_proxies>>
       /\ (last.op = "set_strategy" /\ last'.op = "get_proxy")
            => FollowsPolicy(last.arg, last'.arg, last'.ret)]_vars

\* C23 witness: the strategy was switched to round_robin in a pool built with
\* another index-free strategy, and the next call advanced the index.
C23_Witness ==
    /\ last.op = "get_proxy"
    /\ switched = "round_robin"
    /\ strategy = "round_robin"
    /\ current_index = 1
    /\ last.ret = active_proxies[2]

\* C22 as stated: a configure_proxy call that passes a rest duration makes no
\* eligible entry ineligible, and a ban reported at time t sets rest_until to
\* t + d when the duration d was configured just before, to t + 300 when no
\* configure_proxy call was made.
C22_RestDurationConfigurable ==
    [][/\ (last'.op = "configure_proxy" /\ last_kwargs'.rest_time # {})
            => \A u \in DOMAIN proxies :
                  IsActive(u) => ActiveAt(proxies'[u], now')
       /\ (last'.op = "report_failure" /\ last'.is_ban
                /\ last'.arg \in DOMAIN proxies)
            => /\ configs = 0
                    => proxies'[last'.arg].stats.rest_until = now + REST_SECONDS
               /\ \A d \in last_kwargs.rest_time :
                     (last.op = "configure_proxy" /\ last.arg = last'.arg /\ d >= 0)
                        => proxies'[last'.arg].stats.rest_until = now + d]_vars

\* C24: get_stats changes nothing of the pool and returns one record per
\* identifier of the pool, with total_requests = success_count + failure_count
\* and the entry's current ban_count and last_used.
C24_GetStatsIsReadOnlySnapshot ==
    [][last'.op = "get_stats"
          => /\ UNCHANGED <<proxies_list, proxies, strategy, current_index,
                            domain_sticky_proxies>>
             /\ DOMAIN stats_returned' = DOMAIN proxies
             /\ \A u \in DOMAIN proxies :
                   /\ stats_returned'[u].total_requests
                         = proxies[u].stats.success_count
                             + proxies[u].stats.failure_count
                   /\ stats_returned'[u].bans = proxies[u].stats.ban_count
                   /\ stats_returned'[u].last_used = proxies[u].stats.last_used]_vars

\* C24 witness: get_stats returned the record of a resting entry with a ban
\* and a positive last_used.
C24_Witness ==
    /\ last.op = "get_stats"
    /\ \E u \in DOMAIN stats_returned :
          /\ ~IsActive(u)
          /\ stats_returned[u].bans = 1
          /\ stats_returned[u].last_used > 0

\* C25: the success rate get_stats reports is success_count over
\* success_count + failure_count (here in whole per cent), bans counted in the
\* failures, and 0 when nothing was reported.
C25_SuccessRateOverAllRequests ==
    last.op = "get_stats"
        => \A u \in DOMAIN proxies :
              LET successes == proxies[u].stats.success_count
                  requests == successes + proxies[u].stats.failure_count
                  rate == stats_returned[u].success_rate
              IN  IF requests = 0 THEN rate = 0
                  ELSE /\ rate * requests <= successes * 100
                       /\ successes * 100 < (rate + 1) * requests

\* C25 witness: get_stats reported 50 per cent for an entry with one success
\* and one ban, and 0 for an entry without requests.
C25_Witness ==
    /\ last.op = "get_stats"
    /\ \E u \in DOMAIN proxies :
          /\ proxies[u].stats.success_count = 1
          /\ proxies[u].stats.ban_count = 1
          /\ stats_returned[u].success_rate = 50
    /\ \E u \in DOMAIN proxies :
          /\ total_requests(proxies[u].stats) = 0
          /\ stats_returned[u].success_rate = 0

\* C26: no operation decreases an entry's success_count, failure_count or
\* ban_count.
C26_CountersNeverDecrease ==
    [][\A u \in DOMAIN proxies :
          /\ u \in DOMAIN proxies'
          /\ proxies'[u].stats.success_count >= proxies[u].stats.success_count
          /\ proxies'[u].stats.failure_count >= proxies[u].stats.failure_count
          /\ proxies'[u].stats.ban_count >= proxies[u].stats.ban_count]_vars

\* C26 witness: an entry with a recorded ban was configured afterwards and
\* still holds its counters.
C26_Witness ==
    /\ last.op = "configure_proxy"
    /\ last.arg \in DOMAIN proxies
    /\ proxies[last.arg].stats.failure_count = 1
    /\ proxies[last.arg].stats.ban_count = 1

\* C27: the pool holds the identifiers it was constructed with, in the same
\* order, whatever operation is called.
C27_PoolMembersAreFixed ==
    [][/\ DOMAIN proxies' = DOMAIN proxies
       /\ proxies_list' = proxies_list
       /\ DOMAIN proxies' = Range(proxies_list')]_vars

\* C27 witness: after a ban, configure_proxy was called with an identifier
\* that is not in the pool.
C27_Witness ==
    /\ last.op = "configure_proxy"
    /\ last.arg = UNKNOWN_URL
    /\ UNKNOWN_URL \notin DOMAIN proxies
    /\ \E u \in DOMAIN proxies : proxies[u].stats.ban_count = 1

\* C30: every entry's state is 'active' in every reachable state, banned or
\* not, get_stats reports it so, and an entry is eligible exactly when the
\* clock has reached its rest_until.
C30_BanLeavesLifecycleStateActive ==
    \A u \in DOMAIN proxies :
        /\ proxies[u].state = "active"
        /\ (u \in Eligible) <=> (now >= proxies[u].stats.rest_until)
        /\ last.op = "get_stats" => stats_returned[u].state = "active"

\* C30 witness: an entry rests after a ban reported to it and get_stats
\* reports its state as 'active'.
C30_Witness ==
    /\ last.op = "get_stats"
    /\ \E u \in DOMAIN proxies :
          /\ ban_time[u] >= 0
          /\ now < proxies[u].stats.rest_until
          /\ u \notin Eligible
          /\ stats_returned[u].state = "active"

\* an entry that rests, and an entry that get_proxy can return
Resting(u) == u \in DOMAIN proxies /\ u \notin Eligible
Returnable(u) ==
    /\ u \in Eligible
    /\ ENABLED (get_proxy(NO_DOMAIN) /\ last'.ret = u)

\* C28: as the clock keeps advancing, every entry that is ineligible becomes
\* eligible again and get_proxy can then return it.
C28_IneligibilityHeals ==
    \A u \in URLS : Resting(u) ~> Returnable(u)

\* C28 witness: an entry that was banned is eligible again after its rest
\* window and get_proxy returned it.
C28_Witness ==
    /\ last.op = "get_proxy"
    /\ last.ret \in Eligible
    /\ ban_time[last.ret] >= 0
    /\ now >= ban_time[last.ret] + REST_SECONDS

\* C29: under round_robin with concurrent callers that keep calling, every
\* entry that stays eligible from some point on is returned again and again.
C29_RoundRobinStarvesNoEntry ==
    \A u \in URLS :
        <>[](u \in Eligible) => []<>(last.op = "get_proxy" /\ last.ret = u)

\* C29 witness: three callers hold the three entries of the eligible set, one
\* each.
C29_Witness ==
    /\ strategy = "round_robin"
    /\ Cardinality(Eligible) = 3
    /\ \A t \in THREADS : threads[t].op = "get_proxy"
    /\ {threads[t].proxy_url : t \in THREADS} = Eligible

\* C31: a report_success call for an entry of the pool adds one to its
\* success_count, sets its last_used to the current time and changes nothing
\* else of any entry: failure_count, ban_count and rest_until stay, so an
\* entry that was resting before the call is still resting after it.
C31_ReportSuccessFrame ==
    [][(last'.op = "report_success" /\ last'.arg \in DOMAIN proxies)
        => /\ proxies' = [proxies EXCEPT
                  ![last'.arg].stats.success_count = @ + 1,
                  ![last'.arg].stats.last_used = now]
           /\ \A u \in DOMAIN proxies :
                 LET old == proxies[u].stats
                     new == proxies'[u].stats
                 IN  /\ new.failure_count = old.failure_count
                     /\ new.ban_count = old.ban_count
                     /\ new.rest_until = old.rest_until
                     /\ ~IsActive(u) => ~ActiveAt(proxies'[u], now')]_vars

\* C31 witness: a success was just reported for an entry that is inside the
\* rest window of an earlier ban, and the entry still rests.
C31_Witness ==
    /\ last.op = "report_success"
    /\ last.arg \in DOMAIN proxies
    /\ proxies[last.arg].stats.success_count = 1
    /\ proxies[last.arg].stats.ban_count = 1
    /\ now < proxies[last.arg].stats.rest_until
    /\ ~IsActive(last.arg)

\* C36: in every reachable state every entry has ban_count <= failure_count
\* and total_requests = success_count + failure_count, and a ban report adds
\* one to both the failure_count and the ban_count of its entry.
C36_BanIsAlsoAFailure ==
    [][/\ \A u \in DOMAIN proxies' :
             LET stats == proxies'[u].stats
             IN  /\ stats.ban_count <= stats.failure_count
                 /\ total_requests(stats) =
                        stats.success_count + stats.failure_count
                 /\ stats_returned' # EmptyDict =>
                        stats_returned'[u].total_requests =
                            stats.success_count + stats.failure_count
       /\ (last'.op = "report_failure" /\ last'.is_ban
              /\ last'.arg \in DOMAIN proxies)
           => LET old == proxies[last'.arg].stats
                  new == proxies'[last'.arg].stats
              IN  /\ new.failure_count = old.failure_count + 1
                  /\ new.ban_count = old.ban_count + 1]_vars

\* C36 witness: an entry holds a ban and a failure that was no ban.
C36_Witness ==
    \E u \in DOMAIN proxies :
        /\ proxies[u].stats.failure_count = 2
        /\ proxies[u].stats.ban_count = 1
        /\ last.op = "report_failure"
        /\ last.is_ban
        /\ last.arg = u

\* C37: an entry's rest_until changes only in a report_failure call with
\* is_ban for that entry or in a configure_proxy call for it that passes
\* rest_time; a ban report sets it to the time of the report + 300 whether or
\* not the entry is resting already, and configure_proxy with rest_time r
\* sets it to the time of the call + r, whatever window is in progress.
C37_RestUntilWriters ==
    [][\A u \in DOMAIN proxies :
          LET old == proxies[u].stats.rest_until
              new == proxies'[u].stats.rest_until
              banned == /\ last'.op = "report_failure"
                        /\ last'.is_ban
                        /\ last'.arg = u
              rested == /\ last'.op = "configure_proxy"
                        /\ last'.arg = u
                        /\ last_kwargs'.rest_time # {}
          IN  /\ new # old => banned \/ rested
              /\ banned => new = now + REST_SECONDS
              /\ rested => \A r \in last_kwargs'.rest_time : new = now + r]_vars

\* C37 witness: an entry banned at time 0 was banned again at time 150, which
\* moved the end of its window to 450, and configure_proxy with rest_time 100
\* then cut the window to 250.
C37_Witness ==
    /\ last.op = "configure_proxy"
    /\ last_kwargs.rest_time = {100}
    /\ last.arg \in DOMAIN proxies
    /\ now = 150
    /\ proxies[last.arg].stats.ban_count = 2
    /\ proxies[last.arg].stats.last_used = 150
    /\ proxies[last.arg].stats.rest_until = 250

\* C33: a get_proxy call under round_robin made while some entry is eligible
\* leaves current_index inside the bounds of the eligible list of that
\* moment, whatever the index and the list were at the call before, and
\* returns the eligible entry at that index; it raises only when no entry is
\* eligible.
C33_RoundRobinIndexInBounds ==
    [][(last'.op = "get_proxy" /\ strategy = "round_robin")
        => IF Eligible = {}
           THEN last'.ret = RAISED
           ELSE /\ current_index' \in 0..(Len(active_proxies) - 1)
                /\ last'.ret = active_proxies[current_index' + 1]
                /\ last'.ret \in Eligible]_vars

\* C33 witness: a ban has shrunk the eligible list from three entries to
\* two, and a get_proxy call made after it returned the last entry of the
\* shrunk list.
C33_Witness ==
    /\ strategy = "round_robin"
    /\ last.op = "get_proxy"
    /\ Len(proxies_list) = 3
    /\ Len(active_proxies) = 2
    /\ \E u \in DOMAIN proxies :
          proxies[u].stats.ban_count = 1 /\ u \notin Eligible
    /\ current_index = 1
    /\ last.ret = active_proxies[2]

\* C35: under sticky_session and under custom_rules a get_proxy call without
\* a domain has exactly the outcomes of the random picker: it can return
\* every eligible entry, whatever the sticky map and the domain rules hold,
\* returns nothing else, raises exactly when no entry is eligible, and leaves
\* the sticky map and the round-robin index as they are.
C35_NoDomainFallsBackToRandom ==
    strategy \in {"sticky_session", "custom_rules"}
        => /\ \A e \in Eligible :
                ENABLED (get_proxy(NO_DOMAIN) /\ last'.ret = e)
           /\ Eligible = {} => ENABLED (get_proxy(NO_DOMAIN) /\ last'.ret = RAISED)
           /\ ~ENABLED (/\ get_proxy(NO_DOMAIN)
                        /\ \/ domain_sticky_proxies' # domain_sticky_proxies
                           \/ current_index' # current_index
                           \/ last'.ret \notin
                                (IF Eligible = {} THEN {RAISED} ELSE Eligible))
           /\ (last.op = "get_proxy" /\ last.arg = NO_DOMAIN)
                => /\ NO_DOMAIN \notin DOMAIN domain_sticky_proxies
                   /\ IF Eligible = {} THEN last.ret = RAISED
                      ELSE last.ret \in Eligible

\* C35 witness: under sticky_session, with a domain mapped to one entry, a
\* call without a domain returned the other entry and the map holds the one
\* domain only.
C35_Witness ==
    /\ strategy = "sticky_session"
    /\ last.op = "get_proxy"
    /\ last.arg = NO_DOMAIN
    /\ DOMAIN domain_sticky_proxies = {"a.com"}
    /\ last.ret \in Eligible
    /\ last.ret # domain_sticky_proxies["a.com"]

\* the sticky map's entry for a domain, ABSENT when there is none
Mapped(map, d) == IF d \in DOMAIN map THEN map[d] ELSE ABSENT

\* C32: the sticky map's entry for a domain d differs after a step only when
\* the step is a get_proxy(d) call under sticky_session made while d has no
\* entry or the mapped proxy is not eligible, and the new entry is the
\* eligible proxy that call returned; every other step (get_proxy under
\* another strategy or for another domain or none, reports, configure_proxy,
\* set_strategy, get_stats, the clock) leaves the entry as it is, so no entry
\* goes back to an earlier proxy because that proxy became eligible again.
C32_StickyMapWriters ==
    [][\A d \in DOMAINS \cup {NO_DOMAIN} :
          LET old == Mapped(domain_sticky_proxies, d)
              new == Mapped(domain_sticky_proxies', d)
          IN  new # old
                => /\ last'.op = "get_proxy"
                   /\ last'.arg = d
                   /\ d # NO_DOMAIN
                   /\ strategy = "sticky_session"
                   /\ old = ABSENT \/ ~IsActive(old)
                   /\ new = last'.ret
                   /\ new \in Eligible]_vars

\* C32 witness: a.com was mapped under sticky_session, the mapped proxy was
\* banned and rests, the strategy was changed, and a get_proxy call for a.com
\* under the new strategy returned the other proxy; the map still holds the
\* first one.
C32_Witness ==
    /\ strategy # "sticky_session"
    /\ last.op = "get_proxy"
    /\ last.arg = "a.com"
    /\ "a.com" \in DOMAIN domain_sticky_proxies
    /\ ban_time[domain_sticky_proxies["a.com"]] >= 0
    /\ ~IsActive(domain_sticky_proxies["a.com"])
    /\ last.ret \in Eligible
    /\ last.ret # domain_sticky_proxies["a.com"]

\* C34: a thread holds the lock only between the with statement and the end
\* of the with block of its own call; once a call has returned or raised the
\* lock is not held by its thread, so with every call returned the lock is
\* free; and every call that has reached the with statement returns or
\* raises, whatever the other threads call: get_proxy (raising included, and
\* with the pickers delegating to _get_random_proxy inside the lock), the
\* reports, configure_proxy, set_strategy and get_stats.
C34_LockAlwaysReleased ==
    /\ [](\A t \in THREADS :
            /\ lock = t => threads[t].pc \in {"load", "store", "rest", "exit"}
            /\ threads[t].pc \in {"load", "store", "rest", "exit"} => lock = t)
    /\ []((\A t \in THREADS : threads[t].pc \in {"idle", "done"}) => lock = FREE)
    /\ \A t \in THREADS :
          (threads[t].pc = "with") ~> (threads[t].pc = "done" /\ lock # t)

\* C34 witness: a get_proxy call has raised under one of the delegating
\* strategies, the lock is free, and a call of another thread has returned.
C34_Witness ==
    /\ lock = FREE
    /\ strategy \in LOCKING_STRATEGIES
    /\ \E t1, t2 \in THREADS :
          /\ t1 # t2
          /\ threads[t1].op = "get_proxy"
          /\ threads[t1].pc = "done"
          /\ threads[t1].ret = RAISED
          /\ threads[t2].op = "get_proxy"
          /\ threads[t2].pc = "done"
          /\ threads[t2].ret \in URLS

\* C38: handle_error first reports the failure for the proxy the failed
\* request used, as a ban exactly when the error text holds 'banned', and
\* re-issues the request only while its retry_count is below 3, with
\* retry_count one higher, so that no request carries a retry_count above 3;
\* the proxy of the re-issued request differs from the one that just failed.
C38_RetryWithDifferentProxy ==
    [][/\ request.state = "failed"
            => /\ request'.state = "reported"
               /\ last' = [op |-> "report_failure", arg |-> request.proxy_url,
                           is_ban |-> request.banned, ret |-> RETURNED_NONE]
       /\ (request.state = "reported" /\ request'.state = "pending")
            => /\ request.retry_count < RETRY_LIMIT
               /\ request'.retry_count = request.retry_count + 1
               /\ request'.proxy_url = last'.ret
               /\ request'.proxy_url # request.proxy_url
       /\ request'.retry_count <= RETRY_LIMIT]_vars

====
